---------------------------- MODULE Spec2Model ----------------------------
(***************************************************************************)
(* Timeline builder of lil_wiki_scraper_transformer (timeline_builder.py). *)
(*                                                                         *)
(* A title is a sequence of characters; a character is a short string.     *)
(* An event is identified by its position in main_events (Python object    *)
(* identity), and an Optional[str] that is None is the value None below.   *)
(* A JSON object and a dict are functions from keys (strings) to values.   *)
(***************************************************************************)
EXTENDS Integers, Sequences, FiniteSets, TLC

\* ------------------------------------------------------------ characters

\* U+0020: whitespace, printable, not alphanumeric.
SP == " "
\* U+0009: whitespace, not printable.
TAB == "<TAB>"
\* U+200B (zero width space): not whitespace for str.strip, not printable.
ZWSP == "<ZWSP>"

Lower == {"a", "b", "c"}
Upper == {"A"}
\* Punctuation: printable, neither whitespace nor alphanumeric.
Punct == {"!"}

\* str.isspace of one character, as str.strip() uses it.
IsSpace(c) == c \in {SP, TAB}

\* str.isprintable of one character.
IsPrintable(c) == c \in Lower \cup Upper \cup Punct \cup {SP}

\* str.isalnum of one character.
IsAlnum(c) == c \in Lower \cup Upper

\* str.lower of one character.
ToLower(c) == IF c = "A" THEN "a" ELSE c

\* The value of a navigation key that is missing or null.
None == <<"<None>">>

\* JSON null where an object is expected (Python None), written as a
\* function so that it can be compared with a dict.
Null == [json |-> "null"]

\* timeline_index before assembly (Python None).
NoIndex == -1

\* ------------------------------------------------------------ strings

RECURSIVE LStrip(_)
LStrip(s) ==
    IF s = <<>> THEN <<>>
    ELSE IF IsSpace(Head(s)) THEN LStrip(Tail(s)) ELSE s

RECURSIVE RStrip(_)
RStrip(s) ==
    IF s = <<>> THEN <<>>
    ELSE IF IsSpace(s[Len(s)]) THEN RStrip(SubSeq(s, 1, Len(s) - 1)) ELSE s

\* str.strip()
Strip(s) == RStrip(LStrip(s))

\* "".join(c for c in s if c.isprintable())
KeepPrintable(s) == SelectSeq(s, IsPrintable)

\* normalize_title: None and "" give ""; strip, then drop the non-printable.
normalize_title(title) ==
    IF title = None \/ title = <<>> THEN <<>>
    ELSE KeepPrintable(Strip(title))

\* ------------------------------------------------------------ fuzzy score

Max(a, b) == IF a >= b THEN a ELSE b
Min(a, b) == IF a <= b THEN a ELSE b

\* thefuzz's default processor (full_process): every non-alphanumeric
\* character becomes a space, lower case, strip.
full_process(s) ==
    LET Blank(c) == IF IsAlnum(c) THEN ToLower(c) ELSE SP
    IN  Strip([i \in 1..Len(s) |-> Blank(s[i])])

\* Length of a longest common subsequence.
RECURSIVE LCS(_, _)
LCS(s, t) ==
    IF s = <<>> \/ t = <<>> THEN 0
    ELSE IF Head(s) = Head(t) THEN 1 + LCS(Tail(s), Tail(t))
    ELSE Max(LCS(Tail(s), t), LCS(s, Tail(t)))

\* round(num / den) as Python rounds a float: half to even.
Round(num, den) ==
    LET f == num \div den
        r == num % den
    IN  IF 2 * r < den THEN f
        ELSE IF 2 * r > den THEN f + 1
        ELSE IF f % 2 = 0 THEN f ELSE f + 1

\* fuzz.ratio scaled by scale/10 and rounded: the normalized Indel
\* similarity 100 * 2 * LCS / (len1 + len2).
ScaledRatio(s, t, scale) ==
    IF Len(s) + Len(t) = 0 THEN Round(100 * scale, 10)
    ELSE Round(200 * LCS(s, t) * scale, 10 * (Len(s) + Len(t)))

\* fuzz.partial_ratio scaled by scale/10: the best ratio of the shorter
\* string against a substring of the longer one no longer than it.
ScaledPartialRatio(s, t, scale) ==
    LET short == IF Len(s) <= Len(t) THEN s ELSE t
        long  == IF Len(s) <= Len(t) THEN t ELSE s
        Subs  == {SubSeq(long, i, j) : i \in 1..Len(long), j \in 1..Len(long)}
        Wins  == {w \in Subs : Len(w) >= 1 /\ Len(w) <= Len(short)}
        Rs    == {ScaledRatio(short, w, scale) : w \in Wins}
    IN  CHOOSE m \in Rs : \A r \in Rs : r <= m

\* fuzz.WRatio on processed strings that hold one token each (the token
\* ratios then equal the plain ones and their 0.95 weight never wins),
\* rounded as thefuzz rounds it.
WRatio(p1, p2) ==
    IF p1 = <<>> \/ p2 = <<>> THEN 0
    ELSE LET lmax == Max(Len(p1), Len(p2))
             lmin == Min(Len(p1), Len(p2))
             base == ScaledRatio(p1, p2, 10)
         IN  IF 2 * lmax < 3 * lmin THEN base
             ELSE Max(base, ScaledPartialRatio(p1, p2,
                                 IF lmax <= 8 * lmin THEN 9 ELSE 6))

\* The score extractOne gives a choice for a query.
Score(query, choice) == WRatio(full_process(query), full_process(choice))

\* The set of the elements of a sequence.
Range(seq) == {seq[i] : i \in 1..Len(seq)}

\* ------------------------------------------------------------ bounds

\* The largest number of event files in the directory.
MaxEvents == 3

\* Event files whose links mostly name titles exactly: one title, " c",
\* differs from its normalized form.
LinkTitles == {<<"a">>, <<"b">>, <<SP, "c">>}
LinkPrevs  == {None, <<"a">>}
LinkNexts  == {None, <<"a">>, <<"b">>, <<"c">>}

\* Event files with near-duplicate titles and links that differ from the
\* titles in case, in whitespace or by one more character.
MessyTitles == {<<"a">>, <<SP, "a">>, <<"a", "b">>}
MessyPrevs  == {None, <<"a">>}
MessyNexts  == {None, <<"a">>, <<"A">>}

\* Event files with normalized titles whose previous title, when there is
\* one, is the title before their own, so that a directory can hold
\* threads linked both ways; the next title "A" names no title exactly.
TidyTitles == <<(<<"a">>), (<<"b">>), (<<"c">>)>>
TidyNexts  == {None, <<"b">>, <<"c">>, <<"A">>}

\* Event files linked both ways, so that a directory can hold a ring and
\* nothing else; the title " b" differs from its normalized form.
RingTitles == {<<"a">>, <<SP, "b">>}
RingPrevs  == {None, <<"a">>, <<SP, "b">>}
RingNexts  == {None, <<"a">>, <<"b">>}

\* The largest number of event files when the titles are long.
MaxLongEvents == 2

\* The length of a long title.
LongLen == 15

\* The character c, n times.
Rep(c, n) == [i \in 1..n |-> c]

\* Titles of LongLen characters: letters only, and letters followed by
\* punctuation.
LongTitles == {Rep("a", LongLen), Rep("a", 5) \o Rep("!", LongLen - 5)}

\* One character of a title replaced, one character put in, one taken out.
Substituted(t, i, c) == [t EXCEPT ![i] = c]
Inserted(t, i, c) == SubSeq(t, 1, i - 1) \o <<c>> \o SubSeq(t, i, Len(t))
Deleted(t, i) == SubSeq(t, 1, i - 1) \o SubSeq(t, i + 1, Len(t))

\* Where the long titles are edited.
EditAt == {1, 5}

\* Next titles one character away from a long title.
LongRefs ==
    {Substituted(t, i, "b") : t \in LongTitles, i \in EditAt}
    \cup {Inserted(t, i, "b") : t \in LongTitles, i \in EditAt}
    \cup {Deleted(t, i) : t \in LongTitles, i \in EditAt}

\* The largest number of files in the directory when the loading of the
\* files is followed.
MaxFiles == 2

\* Titles and next titles of the documents in those files.
FileTitles == {<<"a">>, <<"b">>}
FileNexts  == {None, <<"a">>, <<"A">>}

\* The longest title normalize_title is called with when its calls are
\* followed on their own, and the characters of those titles.
MaxTitleLen == 3
TitleChars == {SP, TAB, ZWSP, "a"}

\* ------------------------------------------------------------ state

VARIABLES
    main_events,            \* the loaded Event objects, in load order
    events_by_title,        \* dict: raw title -> event (its position)
    all_main_event_titles,  \* set of the dict's keys
    starting_events,        \* list of events (positions)
    full_timeline,          \* list of events (positions)
    processed_titles,       \* set of normalized titles
    chain_count,
    current_chain,          \* list of events (positions)
    current_event,          \* an event's position, or 0 for None
    start_pos,              \* position of the for loop in starting_events
    placed_count,
    total_count,
    missed_events,          \* set of raw titles
    written,                \* OUTPUT_FILE was written by this run
    output_data,            \* the list dumped to OUTPUT_FILE
    pc,                     \* position of main()
    chains,                 \* history: the chains extended into full_timeline
    ends,                   \* history: how each walk ended
    resolved,               \* history: the last resolution of a next title
    run,                    \* 1 for the first run of the script, 2 for the second
    first_output,           \* history: what the first run wrote
    diagnostics,            \* the messages printed when a walk ended
    directory,              \* the files of MAIN_EVENTS_DIR, in listing order
    file_pos,               \* position of load_main_events in the listing
    event_objects,          \* the list load_main_events builds
    title_in,               \* the argument of a call of normalize_title
    title_out,              \* what that call returned
    to_visit,               \* hybrid crawler: the deque of titles
    visited_titles,         \* hybrid crawler: set of titles
    futures,                \* hybrid crawler: the titles of the batch's futures
    batch_size,             \* hybrid crawler: iterations the for loop has left
    submitted,              \* history: the titles submitted, in order
    discovered,             \* history: the titles successful results named
    saved,                  \* hybrid crawler: titles whose file was written
    hpc,                    \* position of the hybrid crawler's main()
    final_url_map,          \* category crawler: dict url -> category folder
    workers,                \* category crawler: each call of process_url
    files,                  \* the output tree: path -> content
    before,                 \* history: the paths that existed before the run
    writes,                 \* history: how often each path was opened for 'w'
    success_count,
    skip_count,
    error_count,
    total_urls,
    counted,                \* history: how often each url's outcome was counted
    cpc                     \* position of the category crawler's main()

\* The state of the hybrid crawler and of the category crawler.
hybrid == <<to_visit, visited_titles, futures, batch_size, submitted,
            discovered, saved, hpc>>

category == <<final_url_map, workers, files, before, writes, success_count,
              skip_count, error_count, total_urls, counted, cpc>>

crawlers == <<hybrid, category>>

\* What main() never touches once the directory is loaded.
rest == <<directory, file_pos, event_objects, title_in, title_out, crawlers>>

vars == <<main_events, events_by_title, all_main_event_titles, starting_events,
          full_timeline, processed_titles, chain_count, current_chain,
          current_event, start_pos, placed_count, total_count, missed_events,
          written, output_data, pc, chains, ends, resolved, run,
          first_output, diagnostics, rest>>

\* An Event as load_main_events builds it from a file: timeline_index unset.
Event(name, prev, next) ==
    [event_title |-> name,
     navigation |-> [previous_event |-> prev, next_event |-> next],
     timeline_index |-> NoIndex]

\* dict.get(key): the value of the key, None when the dict has no such key.
Get(dict, key) == IF key \in DOMAIN dict THEN dict[key] ELSE None

\* Lines 71, 84: event.navigation.get('previous_event').
Previous(e) == Get(e.navigation, "previous_event")

\* Lines 72, 118: event.navigation.get('next_event').
NextRaw(e) == Get(e.navigation, "next_event")

\* The pages of the pools: a page that names a previous event names
\* neither that event nor itself as its next event, and not itself as its
\* previous one.
Linked(e) ==
    Previous(e) # None =>
        /\ Previous(e) # e.event_title
        /\ NextRaw(e) # Previous(e)
        /\ normalize_title(NextRaw(e)) # normalize_title(e.event_title)

LinkPool ==
    {e \in {Event(t, p, n) : t \in LinkTitles, p \in LinkPrevs, n \in LinkNexts} :
        Linked(e)}

MessyPool ==
    {e \in {Event(t, p, n) : t \in MessyTitles, p \in MessyPrevs, n \in MessyNexts} :
        Linked(e)}

\* No page of a ring names itself as its previous event.
RingPool ==
    {e \in {Event(t, p, n) : t \in RingTitles, p \in RingPrevs, n \in RingNexts} :
        Previous(e) # e.event_title}

\* A tidy page names neither itself nor its previous event as its next.
TidyPool ==
    {e \in {Event(TidyTitles[i], p, n) :
                i \in 1..Len(TidyTitles), p \in {None} \cup Range(TidyTitles),
                n \in TidyNexts} :
        /\ Previous(e) # None =>
               \E i \in 2..Len(TidyTitles) :
                   /\ e.event_title = TidyTitles[i]
                   /\ Previous(e) = TidyTitles[i - 1]
        /\ NextRaw(e) # e.event_title
        /\ NextRaw(e) # None => NextRaw(e) # Previous(e)}

\* Pages with a long title and no links, and pages titled "a" whose next
\* title is one character away from a long title, or "b", or "a".
LongPool ==
    {Event(t, None, None) : t \in LongTitles}
    \cup {Event(<<"a">>, None, n) : n \in LongRefs \cup {<<"b">>, <<"a">>}}

\* The lists load_main_events can return: any files, in any listing order.
Corpora(pool) == UNION {[1..n -> pool] : n \in 0..MaxEvents}

Title(i) == main_events[i].event_title

\* No next title has been resolved yet.
NoResolution ==
    [from |-> 0, target |-> <<>>, how |-> "none", score |-> 0, event |-> 0]

\* The locals of main() before line 77, and no earlier run.
Fresh ==
    /\ events_by_title = <<>>
    /\ all_main_event_titles = {}
    /\ starting_events = <<>>
    /\ full_timeline = <<>>
    /\ processed_titles = {}
    /\ chain_count = 0
    /\ current_chain = <<>>
    /\ current_event = 0
    /\ start_pos = 0
    /\ placed_count = 0
    /\ total_count = 0
    /\ missed_events = {}
    /\ written = FALSE
    /\ output_data = <<>>
    /\ chains = <<>>
    /\ ends = <<>>
    /\ resolved = NoResolution
    /\ run = 1
    /\ first_output = [written |-> FALSE, data |-> <<>>]
    /\ diagnostics = <<>>

\* No call of normalize_title is followed on its own.
NoCall ==
    /\ title_in = None
    /\ title_out = None

\* The hybrid crawler is not running.
NoHybrid ==
    /\ to_visit = <<>>
    /\ visited_titles = {}
    /\ futures = {}
    /\ batch_size = 0
    /\ submitted = <<>>
    /\ discovered = {}
    /\ saved = {}
    /\ hpc = "idle"

\* The category crawler is not running.
NoCategory ==
    /\ final_url_map = <<>>
    /\ workers = <<>>
    /\ files = <<>>
    /\ before = {}
    /\ writes = <<>>
    /\ success_count = 0
    /\ skip_count = 0
    /\ error_count = 0
    /\ total_urls = 0
    /\ counted = <<>>
    /\ cpc = "idle"

\* The state in which main() starts, the directory already loaded (line 65).
Loaded(corpora) ==
    /\ main_events \in corpora
    /\ pc = "loaded"
    /\ Fresh
    /\ directory = <<>>
    /\ file_pos = 0
    /\ event_objects = <<>>
    /\ NoCall
    /\ NoHybrid
    /\ NoCategory

Init == Loaded(Corpora(LinkPool))

InitMessy == Loaded(Corpora(MessyPool))

InitRing == Loaded(Corpora(RingPool))

InitTidy == Loaded(Corpora(TidyPool))

InitLong == Loaded(UNION {[1..n -> LongPool] : n \in 0..MaxLongEvents})

\* ------------------------------------------------------------ load_main_events()

\* Lines 13-28: the names of fields(Event).
EventFields ==
    {"event_id", "event_title", "url", "event_type", "chapter", "synopsis",
     "characters", "locations", "requirements", "choices", "effects",
     "navigation", "trivia", "changelog", "timeline_index"}

\* Lines 14-27: the fields without a default; only timeline_index has one.
RequiredFields == EventFields \ {"timeline_index"}

\* A document that carries every field of lines 14-27 and no timeline_index.
FullDocument(name, next) ==
    [event_id |-> "id", event_title |-> name, url |-> "u",
     event_type |-> None, chapter |-> None, synopsis |-> "s",
     characters |-> <<"x">>, locations |-> <<>>, requirements |-> None,
     choices |-> <<>>, effects |-> <<>>,
     navigation |-> [previous_event |-> None, next_event |-> next],
     trivia |-> <<>>, changelog |-> <<>>]

\* A document without one of its keys, and with one more key.
Without(data, key) == [k \in DOMAIN data \ {key} |-> data[k]]
With(data, key, value) ==
    [k \in DOMAIN data \cup {key} |-> IF k = key THEN value ELSE data[k]]

\* What json.load does not turn into a dict (line 45 or line 47 raises),
\* written as a function so that it can be compared with a document.
Invalid == [json |-> "invalid"]

\* A file of the directory: whether its name ends with .json (line 41),
\* and the data json.load gives for it.
JsonFile(data) == [json_suffix |-> TRUE, data |-> data]
OtherFile == [json_suffix |-> FALSE, data |-> Invalid]

\* The files: full documents, documents with a key the transformer writes
\* and Event does not have, documents without a payload key, documents
\* with a null navigation, text that is no JSON object, and a file that
\* is no .json file.
FilePool ==
    {JsonFile(FullDocument(t, n)) : t \in FileTitles, n \in FileNexts}
    \cup {JsonFile(With(FullDocument(t, n), "primary_character", "p")) :
              t \in FileTitles, n \in FileNexts}
    \cup {JsonFile(Without(FullDocument(t, None), "synopsis")) : t \in FileTitles}
    \cup {JsonFile(With(FullDocument(t, None), "navigation", Null)) :
              t \in FileTitles}
    \cup {JsonFile(Invalid), OtherFile}

\* What os.listdir can return (line 40).
Listings == UNION {[1..n -> FilePool] : n \in 0..MaxFiles}

\* The state in which load_main_events starts its loop (line 40).
InitFiles ==
    /\ directory \in Listings
    /\ file_pos = 1
    /\ event_objects = <<>>
    /\ main_events = <<>>
    /\ pc = "listing"
    /\ Fresh
    /\ NoCall
    /\ NoHybrid
    /\ NoCategory

\* The locals of main() that load_main_events cannot touch.
locals == <<events_by_title, all_main_event_titles, starting_events,
            full_timeline, processed_titles, chain_count, current_chain,
            current_event, start_pos, placed_count, total_count,
            missed_events, written, output_data, chains, ends, resolved, run,
            first_output, diagnostics>>

\* The file the loop of line 40 is at.
CurrentFile == directory[file_pos]

\* Line 47: the keys of the document that are fields of Event.
Filtered(data) == [k \in DOMAIN data \cap EventFields |-> data[k]]

\* Line 48: Event(**filtered_data) raises TypeError when a field without
\* a default is missing (or a key is no field).
Constructs(data) ==
    /\ RequiredFields \subseteq DOMAIN data
    /\ DOMAIN data \subseteq EventFields

\* A constructor that leaves the synopsis at None whatever the document says.
ConstructBlank(data) ==
    [k \in EventFields |->
        IF k = "synopsis" THEN None
        ELSE IF k \in DOMAIN data THEN data[k] ELSE NoIndex]

\* Line 48: the Event built from the keyword arguments; timeline_index
\* takes its default when the document has none.
Construct(data) ==
    [k \in EventFields |-> IF k \in DOMAIN data THEN data[k] ELSE NoIndex]

\* Lines 41-48: the file is a JSON document Event can be built from.
Loads(file) ==
    /\ file.json_suffix
    /\ file.data # Invalid
    /\ Constructs(Filtered(file.data))

\* Lines 40-48: the Event of the file is appended.
LoadFile ==
    /\ pc = "listing"
    /\ file_pos <= Len(directory)
    /\ Loads(CurrentFile)
    /\ event_objects' = Append(event_objects, Construct(Filtered(CurrentFile.data)))
    /\ file_pos' = file_pos + 1
    /\ UNCHANGED <<main_events, pc, locals, title_in, title_out, directory,
                   crawlers>>

\* Lines 40-50: json.load, data.items() or Event(...) raised; the
\* exception is caught, a warning printed and the loop goes on.
SkipFile ==
    /\ pc = "listing"
    /\ file_pos <= Len(directory)
    /\ CurrentFile.json_suffix
    /\ ~Loads(CurrentFile)
    /\ file_pos' = file_pos + 1
    /\ UNCHANGED <<main_events, pc, locals, title_in, title_out, directory,
                   event_objects, crawlers>>

\* Lines 40-41: the name does not end with .json; the file is passed over.
IgnoreFile ==
    /\ pc = "listing"
    /\ file_pos <= Len(directory)
    /\ ~CurrentFile.json_suffix
    /\ file_pos' = file_pos + 1
    /\ UNCHANGED <<main_events, pc, locals, title_in, title_out, directory,
                   event_objects, crawlers>>

\* Lines 52-53 and 65: the list is returned into main_events.
LoadReturn ==
    /\ pc = "listing"
    /\ file_pos > Len(directory)
    /\ main_events' = event_objects
    /\ pc' = "loaded"
    /\ UNCHANGED <<locals, rest>>

\* ------------------------------------------------------------ normalize_title()

\* The arguments of normalize_title: None and the strings up to the bound.
Titles == {None} \cup UNION {[1..n -> TitleChars] : n \in 0..MaxTitleLen}

\* A call of normalize_title is about to be made.
InitNormalize ==
    /\ title_in \in Titles
    /\ title_out = None
    /\ pc = "call"
    /\ main_events = <<>>
    /\ Fresh
    /\ directory = <<>>
    /\ file_pos = 0
    /\ event_objects = <<>>
    /\ NoHybrid
    /\ NoCategory

\* Lines 56-60: the call returns.
Normalize ==
    /\ pc = "call"
    /\ title_out' = normalize_title(title_in)
    /\ pc' = "returned"
    /\ UNCHANGED <<main_events, locals, directory, file_pos, event_objects,
                   title_in, crawlers>>

\* Lines 56-60: normalize_title is called with what it returned.
NormalizeAgain ==
    /\ pc = "returned"
    /\ title_in' = title_out
    /\ title_out' = normalize_title(title_out)
    /\ pc' = "returned_again"
    /\ UNCHANGED <<main_events, locals, directory, file_pos, event_objects,
                   crawlers>>

NextNormalize == Normalize \/ NormalizeAgain

\* normalize_title called on a title, and again on its result.
SpecNormalize == InitNormalize /\ [][NextNormalize]_vars

\* ------------------------------------------------------------ main()

\* A dict built first-wins: the first event of each title.
FirstByTitle(evs) ==
    [t \in {evs[i].event_title : i \in 1..Len(evs)} |->
        CHOOSE i \in 1..Len(evs) :
            /\ evs[i].event_title = t
            /\ \A j \in 1..(i - 1) : evs[j].event_title # t]

\* Line 77, {event.event_title: event for event in main_events}: a later
\* event replaces an earlier one of the same raw title.
ByTitle(evs) ==
    [t \in {evs[i].event_title : i \in 1..Len(evs)} |->
        CHOOSE i \in 1..Len(evs) :
            /\ evs[i].event_title = t
            /\ \A j \in (i + 1)..Len(evs) : evs[j].event_title # t]

\* navigation.get can be called: the value is a dict, not None.
HasGet(navigation) == navigation # Null

\* A test that takes any navigation for a dict.
AnyHasGet(navigation) == TRUE

\* Lines 65-78: return when nothing was loaded; the scan of lines 70-74
\* calls navigation.get on every event, and an AttributeError of it leaves
\* main() uncaught; else build the lookup.
BuildLookup ==
    /\ pc = "loaded"
    /\ IF main_events = <<>>
       THEN /\ pc' = "done"
            /\ UNCHANGED <<events_by_title, all_main_event_titles>>
       ELSE IF \E i \in 1..Len(main_events) : ~HasGet(main_events[i].navigation)
       THEN /\ pc' = "raised"
            /\ UNCHANGED <<events_by_title, all_main_event_titles>>
       ELSE /\ events_by_title' = ByTitle(main_events)
            /\ all_main_event_titles' = DOMAIN ByTitle(main_events)
            /\ pc' = "find_starts"
    /\ UNCHANGED <<main_events, starting_events, full_timeline, processed_titles,
                   chain_count, current_chain, current_event, start_pos,
                   placed_count, total_count, missed_events, written,
                   output_data, chains, ends, resolved, run, first_output, diagnostics, rest>>

\* A test that takes every event for a start event.
EveryEventStarts(e, titles) == TRUE

\* Line 85: the raw previous title (None when absent) is no key of the dict.
IsStart(e, titles) == Previous(e) \notin titles

\* Lines 82-86: the start events (their positions), in load order.
StartingEvents(evs, titles) ==
    SelectSeq([i \in 1..Len(evs) |-> i], LAMBDA i : IsStart(evs[i], titles))

\* A start discovery that goes on to the loop of line 99 with no start.
FindStartsNoReturn ==
    /\ pc = "find_starts"
    /\ starting_events' = StartingEvents(main_events, all_main_event_titles)
    /\ pc' = "for_start"
    /\ start_pos' = 1
    /\ UNCHANGED <<main_events, events_by_title, all_main_event_titles,
                   full_timeline, processed_titles, chain_count, current_chain,
                   current_event, placed_count, total_count, missed_events,
                   written, output_data, chains, ends, resolved, run,
                   first_output, diagnostics, rest>>

\* Lines 81-97: find the starts; return when there is none.
FindStarts ==
    /\ pc = "find_starts"
    /\ starting_events' = StartingEvents(main_events, all_main_event_titles)
    /\ IF starting_events' = <<>>
       THEN /\ pc' = "done"
            /\ UNCHANGED start_pos
       ELSE /\ pc' = "for_start"
            /\ start_pos' = 1
    /\ UNCHANGED <<main_events, events_by_title, all_main_event_titles,
                   full_timeline, processed_titles, chain_count, current_chain,
                   current_event, placed_count, total_count, missed_events,
                   written, output_data, chains, ends, resolved, run,
                   first_output, diagnostics, rest>>

\* The event the for loop of line 99 is at.
StartEvent == starting_events[start_pos]

\* Line 99, the loop is over: go on to line 141.
StartsExhausted ==
    /\ pc = "for_start"
    /\ start_pos > Len(starting_events)
    /\ pc' = "account"
    /\ UNCHANGED <<main_events, events_by_title, all_main_event_titles,
                   starting_events, full_timeline, processed_titles, chain_count,
                   current_chain, current_event, start_pos, placed_count,
                   total_count, missed_events, written, output_data, chains,
                   ends, resolved, run, first_output, diagnostics, rest>>

\* A test on the raw title, not on its normalized form.
IsProcessedRaw(title, processed) == title \in processed

\* A test that never finds a title processed.
NeverProcessed(title, processed) == FALSE

\* Lines 100-101 and 111-112: the normalized title is in the processed set.
IsProcessed(title, processed) == normalize_title(title) \in processed

\* Lines 100-102: a start event whose normalized title is processed is skipped.
SkipStart ==
    /\ pc = "for_start"
    /\ start_pos <= Len(starting_events)
    /\ IsProcessed(Title(StartEvent), processed_titles)
    /\ start_pos' = start_pos + 1
    /\ UNCHANGED <<main_events, events_by_title, all_main_event_titles,
                   starting_events, full_timeline, processed_titles, chain_count,
                   current_chain, current_event, placed_count, total_count,
                   missed_events, written, output_data, pc, chains, ends,
                   resolved, run, first_output, diagnostics, rest>>

\* Lines 100-108: a new chain begins at the start event.
BeginChain ==
    /\ pc = "for_start"
    /\ start_pos <= Len(starting_events)
    /\ ~IsProcessed(Title(StartEvent), processed_titles)
    /\ chain_count' = chain_count + 1
    /\ current_chain' = <<>>
    /\ current_event' = StartEvent
    /\ pc' = "walk"
    /\ UNCHANGED <<main_events, events_by_title, all_main_event_titles,
                   starting_events, full_timeline, processed_titles, start_pos,
                   placed_count, total_count, missed_events, written,
                   output_data, chains, ends, resolved, run, first_output, diagnostics, rest>>

\* Line 110, current_event is None (set by line 134): the while loop ends.
WalkExit ==
    /\ pc = "walk"
    /\ current_event = 0
    /\ pc' = "extend"
    /\ UNCHANGED <<main_events, events_by_title, all_main_event_titles,
                   starting_events, full_timeline, processed_titles, chain_count,
                   current_chain, current_event, start_pos, placed_count,
                   total_count, missed_events, written, output_data, chains,
                   ends, resolved, run, first_output, diagnostics, rest>>

\* Lines 111-113: the event's normalized title is processed; break,
\* with no message printed.
WalkCycle ==
    /\ pc = "walk"
    /\ current_event # 0
    /\ IsProcessed(Title(current_event), processed_titles)
    /\ ends' = Append(ends, "cycle")
    /\ pc' = "extend"
    /\ UNCHANGED <<main_events, events_by_title, all_main_event_titles,
                   starting_events, full_timeline, processed_titles, chain_count,
                   current_chain, current_event, start_pos, placed_count,
                   total_count, missed_events, written, output_data, chains,
                   resolved, run, first_output, diagnostics, rest>>

\* Lines 118-119: the normalized next title of an event.
NextTitle(e) == normalize_title(NextRaw(e))

\* Line 128: the highest score among the choices.
BestScore(query, choices) ==
    LET scores == {Score(query, c) : c \in choices}
    IN  CHOOSE m \in scores : \A x \in scores : x <= m

\* Line 128: what extractOne may return. Among equal scores the first of
\* the iteration wins, and a set of str iterates in hash order, which
\* differs from one interpreter process to the next.
BestChoices(query, choices) ==
    {c \in choices : Score(query, c) = BestScore(query, choices)}

\* The confidence a fuzzy match must exceed.
FuzzyThreshold == 90

\* A threshold test that takes no fuzzy match at all.
AcceptsNone(score) == FALSE

\* A threshold test that also takes a score equal to the threshold.
AcceptsAtLeast(score) == score >= FuzzyThreshold

\* Line 129: a best match is taken when its score is above the threshold.
Accepts(score) == score > FuzzyThreshold

\* A visit that marks the raw title instead of the normalized one.
VisitRaw(cur, chain, processed) ==
    [chain |-> Append(chain, cur),
     processed |-> processed \cup {main_events[cur].event_title}]

\* A visit that appends the event and leaves the processed set alone.
VisitUnmarked(cur, chain, processed) ==
    [chain |-> Append(chain, cur), processed |-> processed]

\* Lines 115-116: the event joins the chain and its normalized title the
\* processed set.
VisitResult(cur, chain, processed) ==
    [chain |-> Append(chain, cur),
     processed |-> processed \cup {normalize_title(main_events[cur].event_title)}]

Visit ==
    LET v == VisitResult(current_event, current_chain, processed_titles)
    IN  /\ current_chain' = v.chain
        /\ processed_titles' = v.processed

\* What a walk step leaves alone besides the walk's own variables.
WalkFrame ==
    UNCHANGED <<main_events, events_by_title, all_main_event_titles,
                starting_events, full_timeline, chain_count, start_pos,
                placed_count, total_count, missed_events, written, output_data,
                chains, run, first_output, rest>>

\* Lines 111-123: the event is visited and has no next title; line 122
\* prints the end of the chain; break.
WalkCleanEnd ==
    /\ pc = "walk"
    /\ current_event # 0
    /\ ~IsProcessed(Title(current_event), processed_titles)
    /\ NextTitle(main_events[current_event]) = <<>>
    /\ Visit
    /\ ends' = Append(ends, "clean")
    /\ diagnostics' = Append(diagnostics,
                             [kind |-> "clean", event |-> current_event])
    /\ resolved' = [from |-> current_event, target |-> <<>>, how |-> "empty",
                    score |-> 0, event |-> 0]
    /\ pc' = "extend"
    /\ UNCHANGED current_event
    /\ WalkFrame

\* Lines 111-125, 136: the next title is a key of the dict.
WalkExact ==
    /\ pc = "walk"
    /\ current_event # 0
    /\ ~IsProcessed(Title(current_event), processed_titles)
    /\ LET nt == NextTitle(main_events[current_event])
       IN  /\ nt # <<>>
           /\ nt \in DOMAIN events_by_title
           /\ current_event' = events_by_title[nt]
           /\ resolved' = [from |-> current_event, target |-> nt,
                           how |-> "exact", score |-> 0,
                           event |-> events_by_title[nt]]
    /\ Visit
    /\ UNCHANGED <<pc, ends, diagnostics>>
    /\ WalkFrame

\* Lines 111-131, 136: no key; the best fuzzy match is above the threshold.
WalkFuzzy ==
    /\ pc = "walk"
    /\ current_event # 0
    /\ ~IsProcessed(Title(current_event), processed_titles)
    /\ LET nt == NextTitle(main_events[current_event])
       IN  /\ nt # <<>>
           /\ nt \notin DOMAIN events_by_title
           /\ Accepts(BestScore(nt, all_main_event_titles))
           /\ \E best \in BestChoices(nt, all_main_event_titles) :
                  /\ current_event' = events_by_title[best]
                  /\ resolved' = [from |-> current_event, target |-> nt,
                                  how |-> "fuzzy",
                                  score |-> BestScore(nt, all_main_event_titles),
                                  event |-> events_by_title[best]]
    /\ Visit
    /\ UNCHANGED <<pc, ends, diagnostics>>
    /\ WalkFrame

\* Lines 111-136: no key and no match above the threshold; line 133 prints
\* the broken link and current_event becomes None.
WalkBroken ==
    /\ pc = "walk"
    /\ current_event # 0
    /\ ~IsProcessed(Title(current_event), processed_titles)
    /\ LET nt == NextTitle(main_events[current_event])
       IN  /\ nt # <<>>
           /\ nt \notin DOMAIN events_by_title
           /\ ~Accepts(BestScore(nt, all_main_event_titles))
           /\ resolved' = [from |-> current_event, target |-> nt,
                           how |-> "notfound",
                           score |-> BestScore(nt, all_main_event_titles),
                           event |-> 0]
    /\ Visit
    /\ current_event' = 0
    /\ ends' = Append(ends, "broken")
    /\ diagnostics' = Append(diagnostics,
                             [kind |-> "broken", event |-> current_event])
    /\ UNCHANGED pc
    /\ WalkFrame

\* An extension that puts the chain before the timeline built so far.
Prepended(timeline, chain) == chain \o timeline

\* Line 138, full_timeline.extend(current_chain).
Extended(timeline, chain) == timeline \o chain

\* An extension after which a walk that did not end cleanly ends the for
\* loop of line 99 as well.
ExtendAndStop ==
    /\ pc = "extend"
    /\ full_timeline' = Extended(full_timeline, current_chain)
    /\ chains' = Append(chains, current_chain)
    /\ start_pos' = IF ends[Len(ends)] = "clean"
                    THEN start_pos + 1
                    ELSE Len(starting_events) + 1
    /\ pc' = "for_start"
    /\ UNCHANGED <<main_events, events_by_title, all_main_event_titles,
                   starting_events, processed_titles, chain_count,
                   current_chain, current_event, placed_count, total_count,
                   missed_events, written, output_data, ends, resolved, run,
                   first_output, diagnostics, rest>>

\* Line 138: the chain is added to the timeline; on to the next start event.
ExtendTimeline ==
    /\ pc = "extend"
    /\ full_timeline' = Extended(full_timeline, current_chain)
    /\ chains' = Append(chains, current_chain)
    /\ start_pos' = start_pos + 1
    /\ pc' = "for_start"
    /\ UNCHANGED <<main_events, events_by_title, all_main_event_titles,
                   starting_events, processed_titles, chain_count,
                   current_chain, current_event, placed_count, total_count,
                   missed_events, written, output_data, ends, resolved, run,
                   first_output, diagnostics, rest>>

\* Lines 141-148: the counts and the set of missed titles.
Account ==
    /\ pc = "account"
    /\ placed_count' = Len(full_timeline)
    /\ total_count' = Len(main_events)
    /\ missed_events' = all_main_event_titles \ processed_titles
    /\ pc' = "assign"
    /\ UNCHANGED <<main_events, events_by_title, all_main_event_titles,
                   starting_events, full_timeline, processed_titles, chain_count,
                   current_chain, current_event, start_pos, written,
                   output_data, chains, ends, resolved, run, first_output, diagnostics, rest>>

\* The last position of event e in the timeline.
LastPosition(timeline, e) ==
    CHOOSE i \in 1..Len(timeline) :
        /\ timeline[i] = e
        /\ \A j \in (i + 1)..Len(timeline) : timeline[j] # e

\* An assembly that numbers every loaded event, placed or not.
IndexedAll(evs, timeline) ==
    [e \in 1..Len(evs) |->
        IF \E i \in 1..Len(timeline) : timeline[i] = e
        THEN [evs[e] EXCEPT !.timeline_index = LastPosition(timeline, e) - 1]
        ELSE [evs[e] EXCEPT !.timeline_index = Len(timeline)]]

\* An assembly that numbers the events from 1.
IndexedFromOne(evs, timeline) ==
    [e \in 1..Len(evs) |->
        IF \E i \in 1..Len(timeline) : timeline[i] = e
        THEN [evs[e] EXCEPT !.timeline_index = LastPosition(timeline, e)]
        ELSE evs[e]]

\* Lines 150-151, event.timeline_index = i over enumerate(full_timeline):
\* a later position of the same event would overwrite an earlier one.
Indexed(evs, timeline) ==
    [e \in 1..Len(evs) |->
        IF \E i \in 1..Len(timeline) : timeline[i] = e
        THEN [evs[e] EXCEPT !.timeline_index = LastPosition(timeline, e) - 1]
        ELSE evs[e]]

\* Lines 150-151: the indices are assigned.
AssignIndexes ==
    /\ pc = "assign"
    /\ main_events' = Indexed(main_events, full_timeline)
    /\ pc' = "write"
    /\ UNCHANGED <<events_by_title, all_main_event_titles, starting_events,
                   full_timeline, processed_titles, chain_count, current_chain,
                   current_event, start_pos, placed_count, total_count,
                   missed_events, written, output_data, chains, ends, resolved,
                   run, first_output, diagnostics, rest>>

\* Lines 153-155: the events of the timeline are dumped to OUTPUT_FILE.
WriteOutput ==
    /\ pc = "write"
    /\ output_data' =
           [i \in 1..Len(full_timeline) |-> main_events[full_timeline[i]]]
    /\ written' = TRUE
    /\ pc' = "done"
    /\ UNCHANGED <<main_events, events_by_title, all_main_event_titles,
                   starting_events, full_timeline, processed_titles, chain_count,
                   current_chain, current_event, start_pos, placed_count,
                   total_count, missed_events, chains, ends, resolved, run,
                   first_output, diagnostics, rest>>

\* Lines 159-160, the script is run a second time on the same directory:
\* the files are loaded again and main() starts afresh.
Rerun ==
    /\ pc = "done"
    /\ run = 1
    /\ run' = 2
    /\ first_output' = [written |-> written, data |-> output_data]
    /\ main_events' =
           [i \in 1..Len(main_events) |->
               [main_events[i] EXCEPT !.timeline_index = NoIndex]]
    /\ events_by_title' = <<>>
    /\ all_main_event_titles' = {}
    /\ starting_events' = <<>>
    /\ full_timeline' = <<>>
    /\ processed_titles' = {}
    /\ chain_count' = 0
    /\ current_chain' = <<>>
    /\ current_event' = 0
    /\ start_pos' = 0
    /\ placed_count' = 0
    /\ total_count' = 0
    /\ missed_events' = {}
    /\ written' = FALSE
    /\ output_data' = <<>>
    /\ pc' = "loaded"
    /\ chains' = <<>>
    /\ ends' = <<>>
    /\ resolved' = NoResolution
    /\ diagnostics' = <<>>
    /\ UNCHANGED rest

Next ==
    \/ BuildLookup
    \/ FindStarts
    \/ StartsExhausted
    \/ SkipStart
    \/ BeginChain
    \/ WalkExit
    \/ WalkCycle
    \/ WalkCleanEnd
    \/ WalkExact
    \/ WalkFuzzy
    \/ WalkBroken
    \/ ExtendTimeline
    \/ Account
    \/ AssignIndexes
    \/ WriteOutput

\* One run of the timeline builder over event files with mostly exact links.
Spec == Init /\ [][Next]_vars

\* One run over event files with near-duplicate titles.
SpecMessy == InitMessy /\ [][Next]_vars

\* One run over event files with long titles.
SpecLong == InitLong /\ [][Next]_vars

\* One run over event files with normalized titles.
SpecTidy == InitTidy /\ [][Next]_vars

\* One run over event files that link to each other both ways.
SpecRing == InitRing /\ [][Next]_vars

NextFiles ==
    \/ LoadFile
    \/ SkipFile
    \/ IgnoreFile
    \/ LoadReturn
    \/ Next

\* One run of the script from the listing of the directory on.
SpecFiles == InitFiles /\ [][NextFiles]_vars

NextTwice == Next \/ Rerun

\* Two runs of the script, one after the other, on the same directory.
SpecTwice == InitMessy /\ [][NextTwice]_vars

\* ------------------------------------------------------------ hybrid crawler

\* The largest number of event pages on the wiki, and their titles.
MaxPages == 2
WikiTitles == <<"A", "B", "C", "D">>
EventPages == {WikiTitles[i] : i \in 1..MaxPages}

\* Python's None where a title is expected.
NoneTitle == "<None>"

\* Lines 20-25.
JUNK_TITLES == {"update xx.xx.xx"}

TITLE_MAPPINGS ==
    ("Fireworks etc..." :> "Fireworks, Chicken, and the Innate Fear of Death")
    @@ ("The Legacy of Thuam Pt. IV" :> "The Legacy of Thaum Pt. IV")
    @@ ("The Sakakibara Diet" :> NoneTitle)

\* What the previous and next links of a page may read.
PrevLinks == EventPages \cup {NoneTitle, ""} \cup JUNK_TITLES

NextLinks ==
    EventPages \cup {NoneTitle} \cup JUNK_TITLES
        \cup {"The Legacy of Thuam Pt. IV", "The Sakakibara Diet"}

\* What fetching and transforming a page gives: an exception, or the
\* event's data with the navigation of transformer.py lines 244-249.
Failed == [raised |-> TRUE]

Responses ==
    {Failed} \cup
    {[raised |-> FALSE,
      navigation |-> [previous_event |-> p, next_event |-> n]] :
        p \in PrevLinks, n \in NextLinks}

\* Line 133-137: the deque built from the set of the seed titles, in the
\* order the set iterates.
SeedQueues ==
    {q \in UNION {[1..n -> EventPages] : n \in 0..MaxPages} :
        \A i, j \in 1..Len(q) : q[i] = q[j] => i = j}

\* The timeline builder is not running.
NoBuilder ==
    /\ main_events = <<>>
    /\ pc = "idle"
    /\ Fresh
    /\ directory = <<>>
    /\ file_pos = 0
    /\ event_objects = <<>>
    /\ NoCall

\* Lines 137-140: the traversal is about to start.
InitHybrid ==
    /\ to_visit \in SeedQueues
    /\ visited_titles = {}
    /\ futures = {}
    /\ batch_size = 0
    /\ submitted = <<>>
    /\ discovered = {}
    /\ saved = {}
    /\ hpc = "while"
    /\ NoBuilder
    /\ NoCategory

\* What the hybrid crawler never touches.
beside_hybrid == <<main_events, pc, locals, directory, file_pos, event_objects,
                   title_in, title_out, category>>

\* The truth value of a title: None and the empty string are false.
Truthy(title) == title \notin {NoneTitle, ""}

\* nav.get(key) on the navigation dict.
TitleAt(nav, key) == IF key \in DOMAIN nav THEN nav[key] ELSE NoneTitle

\* Lines 95-99: what the cleaning loop stores for a title.
Cleaned(title) ==
    IF ~Truthy(title) \/ title \in JUNK_TITLES THEN NoneTitle
    ELSE IF title \in DOMAIN TITLE_MAPPINGS THEN TITLE_MAPPINGS[title]
    ELSE title

\* Lines 93-100: the loop cleans the keys prev_event and next_event; the
\* key previous_event, which the transformer writes, is left as it is.
CleanNavigation(nav) ==
    [k \in DOMAIN nav \cup {"prev_event", "next_event"} |->
        IF k \in {"prev_event", "next_event"}
        THEN Cleaned(TitleAt(nav, k))
        ELSE nav[k]]

\* Lines 85-118: the dict process_and_discover returns, read by the
\* result.get calls of lines 161-169.
process_and_discover(response, title_hint) ==
    IF response.raised
    THEN [status |-> "error", title |-> title_hint,
          prev_event |-> NoneTitle, next_event |-> NoneTitle]
    ELSE LET nav == CleanNavigation(response.navigation)
         IN  [status |-> "success", title |-> title_hint,
              prev_event |-> TitleAt(nav, "previous_event"),
              next_event |-> TitleAt(nav, "next_event")]

\* A discovery that appends without looking at the queue.
EnqueueUnchecked(queue, visited, title) ==
    IF Truthy(title) /\ title \notin visited
    THEN Append(queue, title)
    ELSE queue

\* A discovery that appends only to an empty queue.
EnqueueIfEmpty(queue, visited, title) ==
    IF Truthy(title) /\ title \notin visited /\ queue = <<>>
    THEN Append(queue, title)
    ELSE queue

\* Lines 170-171: a discovered title joins the queue unless it is false,
\* visited or queued.
Enqueue(queue, visited, title) ==
    IF Truthy(title) /\ title \notin visited /\ title \notin Range(queue)
    THEN Append(queue, title)
    ELSE queue

\* Lines 141-143: the queue is not empty; a batch of its length begins.
HybridBatch ==
    /\ hpc = "while"
    /\ to_visit # <<>>
    /\ futures' = {}
    /\ batch_size' = Len(to_visit)
    /\ hpc' = "for"
    /\ UNCHANGED <<to_visit, visited_titles, submitted, discovered, saved,
                   beside_hybrid>>

\* Lines 145-153: one pass of the for loop; the title is taken from the
\* left and, unless false or visited, marked and submitted.
HybridSubmit ==
    /\ hpc = "for"
    /\ batch_size > 0
    /\ to_visit # <<>>
    /\ LET current_title == Head(to_visit)
       IN  /\ to_visit' = Tail(to_visit)
           /\ batch_size' = batch_size - 1
           /\ IF ~Truthy(current_title) \/ current_title \in visited_titles
              THEN UNCHANGED <<visited_titles, futures, submitted>>
              ELSE /\ visited_titles' = visited_titles \cup {current_title}
                   /\ futures' = futures \cup {current_title}
                   /\ submitted' = Append(submitted, current_title)
    /\ UNCHANGED <<discovered, saved, hpc, beside_hybrid>>

\* Lines 145-146, 155-158: the for loop is over; with no future the while
\* loop goes on, otherwise the futures are awaited.
HybridAwait ==
    /\ hpc = "for"
    /\ batch_size = 0 \/ to_visit = <<>>
    /\ hpc' = IF futures = {} THEN "while" ELSE "as_completed"
    /\ UNCHANGED <<to_visit, visited_titles, futures, batch_size, submitted,
                   discovered, saved, beside_hybrid>>

\* Lines 158-172 with 85-118: a future completes, in any order; its page
\* was fetched, cleaned and saved, or an exception was caught; the titles
\* of its result are discovered.
HybridComplete ==
    /\ hpc = "as_completed"
    /\ \E title \in futures, response \in Responses :
           LET result == process_and_discover(response, title)
               first  == Enqueue(to_visit, visited_titles, result.prev_event)
           IN  /\ to_visit' = Enqueue(first, visited_titles, result.next_event)
               /\ futures' = futures \ {title}
               /\ saved' = IF result.status = "success"
                           THEN saved \cup {title} ELSE saved
               /\ discovered' = discovered \cup
                      {d \in {result.prev_event, result.next_event} : Truthy(d)}
               /\ hpc' = IF futures \ {title} = {} THEN "while" ELSE hpc
    /\ UNCHANGED <<visited_titles, batch_size, submitted, beside_hybrid>>

\* Lines 141, 174-175: the queue is empty; the crawl is complete.
HybridExit ==
    /\ hpc = "while"
    /\ to_visit = <<>>
    /\ hpc' = "complete"
    /\ UNCHANGED <<to_visit, visited_titles, futures, batch_size, submitted,
                   discovered, saved, beside_hybrid>>

NextHybrid ==
    \/ HybridBatch
    \/ HybridSubmit
    \/ HybridAwait
    \/ HybridComplete
    \/ HybridExit

\* The traversal loop of the hybrid crawler.
SpecHybrid == InitHybrid /\ [][NextHybrid]_vars

\* The same, the main thread never stopping while it has a step to take:
\* every request has a timeout (line 87), so every future completes.
SpecHybridFair == SpecHybrid /\ WF_vars(NextHybrid)

\* ------------------------------------------------------------ category crawler

\* The largest number of event URLs the discovery phase finds, and the URLs.
MaxUrls == 2
EventUrls == <<"u1", "u2", "u3", "u4">>

\* Line 27: the size of the thread pool.
MAX_WORKERS == 10

\* Lines 198 and 213: the folders a URL is mapped to.
CategoryFolders == {"Main_Events", "Character_Events"}

\* Line 120: the characters sanitize_filename removes.
ForbiddenChars == {"\\", "/", "*", "?", ":", "\"", "<", ">", "|"}

\* Lines 119-120.
sanitize_filename(name) == SelectSeq(name, LAMBDA c : c \notin ForbiddenChars)

\* What fetching and transforming a URL gives: an exception, or event data
\* with an event_id and a primary_character, either of which may be None.
EventIds == {NoneTitle, "e1", "e2"}
Characters == {None, <<"p">>, <<"p", "?">>}

UrlResponses ==
    {Failed} \cup
    {[raised |-> FALSE, event_id |-> i, primary_character |-> c] :
        i \in EventIds, c \in Characters}

\* Lines 133-142: the output path of an event: the category folder, the
\* character's folder under Character_Events, and the file of the event_id.
OutputPath(event_data, category_folder) ==
    [folder |-> category_folder,
     character |->
         IF /\ event_data.primary_character \notin {None, <<>>}
            /\ category_folder = "Character_Events"
         THEN sanitize_filename(event_data.primary_character)
         ELSE <<>>,
     file |-> event_data.event_id]

\* The output trees a run may find: empty, or with one file of an earlier run.
EarlierTrees ==
    {<<>>,
     [p \in {[folder |-> "Main_Events", character |-> <<>>, file |-> "e1"]}
         |-> "old"]}

\* Lines 172-216: the discovery phase is over; final_url_map maps each
\* URL found to its folder.
InitCategory ==
    /\ final_url_map \in
           UNION {[{EventUrls[i] : i \in 1..n} -> CategoryFolders] : n \in 0..MaxUrls}
    /\ files \in EarlierTrees
    /\ before = DOMAIN files
    /\ workers = <<>>
    /\ writes = <<>>
    /\ success_count = 0
    /\ skip_count = 0
    /\ error_count = 0
    /\ total_urls = 0
    /\ counted = <<>>
    /\ cpc = "phase2"
    /\ NoBuilder
    /\ NoHybrid

\* What the category crawler never touches.
beside_category == <<main_events, pc, locals, directory, file_pos,
                     event_objects, title_in, title_out, hybrid>>

\* Lines 216-220: no URL was discovered; main() returns.
CategoryNoUrls ==
    /\ cpc = "phase2"
    /\ DOMAIN final_url_map = {}
    /\ total_urls' = 0
    /\ cpc' = "returned"
    /\ UNCHANGED <<final_url_map, workers, files, before, writes, success_count,
                   skip_count, error_count, counted, beside_category>>

\* Lines 216-224: one call of process_url is submitted for every item of
\* final_url_map.
CategorySubmit ==
    /\ cpc = "phase2"
    /\ DOMAIN final_url_map # {}
    /\ total_urls' = Cardinality(DOMAIN final_url_map)
    /\ success_count' = 0
    /\ skip_count' = 0
    /\ error_count' = 0
    /\ workers' = [u \in DOMAIN final_url_map |->
                     [at |-> "queued", path |-> <<>>, result |-> ""]]
    /\ counted' = [u \in DOMAIN final_url_map |-> 0]
    /\ cpc' = "as_completed"
    /\ UNCHANGED <<final_url_map, files, before, writes, beside_category>>

\* The calls of process_url that a thread of the pool is running.
Running == {u \in DOMAIN workers : workers[u].at \in {"exists", "open"}}

\* The call of process_url for the url returns the message.
Returns(url, message) ==
    workers' = [workers EXCEPT ![url].at = "done", ![url].result = message]

\* Lines 123-142, 151-154: a thread of the pool takes the call; the page is
\* fetched and transformed. An exception gives an [ERROR] message, a
\* missing event_id a [WARNING] message; otherwise the path is computed.
ProcessFetch(url) ==
    /\ cpc = "as_completed"
    /\ workers[url].at = "queued"
    /\ Cardinality(Running) < MAX_WORKERS
    /\ \E response \in UrlResponses :
           IF response.raised
           THEN Returns(url, "[ERROR]")
           ELSE IF ~Truthy(response.event_id)
           THEN Returns(url, "[WARNING]")
           ELSE workers' = [workers EXCEPT
                               ![url].at = "exists",
                               ![url].path = OutputPath(response, final_url_map[url])]
    /\ UNCHANGED <<final_url_map, files, before, writes, success_count,
                   skip_count, error_count, total_urls, counted, cpc,
                   beside_category>>

\* Lines 144-145: os.path.exists; an existing path gives a [SKIP] message.
ProcessExists(url) ==
    /\ workers[url].at = "exists"
    /\ IF workers[url].path \in DOMAIN files
       THEN Returns(url, "[SKIP]")
       ELSE workers' = [workers EXCEPT ![url].at = "open"]
    /\ UNCHANGED <<final_url_map, files, before, writes, success_count,
                   skip_count, error_count, total_urls, counted, cpc,
                   beside_category>>

\* Lines 147-150: the path is opened for writing and the event dumped.
ProcessWrite(url) ==
    /\ workers[url].at = "open"
    /\ LET path == workers[url].path
       IN  /\ files' = (path :> url) @@ files
           /\ writes' = (path :> (IF path \in DOMAIN writes
                                  THEN writes[path] + 1 ELSE 1)) @@ writes
    /\ Returns(url, "[SUCCESS]")
    /\ UNCHANGED <<final_url_map, before, success_count, skip_count,
                   error_count, total_urls, counted, cpc, beside_category>>

\* A count that takes only the messages tagged [ERROR] for errors.
ClassifyTagged(result) ==
    IF result = "[SUCCESS]" THEN "success_count"
    ELSE IF result = "[SKIP]" THEN "skip_count"
    ELSE IF result = "[ERROR]" THEN "error_count"
    ELSE "none"

\* Lines 229-232: the counter a message goes to.
Classify(result) ==
    IF result = "[SUCCESS]" THEN "success_count"
    ELSE IF result = "[SKIP]" THEN "skip_count"
    ELSE "error_count"

\* Lines 225-233: as_completed yields a finished future, in the order of
\* completion, and its message is counted. process_url catches every
\* Exception, so future.result() does not raise.
CategoryCount(url) ==
    /\ cpc = "as_completed"
    /\ workers[url].at = "done"
    /\ LET counter == Classify(workers[url].result)
       IN  /\ success_count' = success_count + (IF counter = "success_count" THEN 1 ELSE 0)
           /\ skip_count' = skip_count + (IF counter = "skip_count" THEN 1 ELSE 0)
           /\ error_count' = error_count + (IF counter = "error_count" THEN 1 ELSE 0)
    /\ workers' = [workers EXCEPT ![url].at = "yielded"]
    /\ counted' = [counted EXCEPT ![url] = @ + 1]
    /\ UNCHANGED <<final_url_map, files, before, writes, total_urls, cpc,
                   beside_category>>

\* Lines 225, 238-241: every future was yielded; the summary is printed.
CategoryComplete ==
    /\ cpc = "as_completed"
    /\ \A u \in DOMAIN workers : workers[u].at = "yielded"
    /\ cpc' = "complete"
    /\ UNCHANGED <<final_url_map, workers, files, before, writes, success_count,
                   skip_count, error_count, total_urls, counted, beside_category>>

NextCategory ==
    \/ CategoryNoUrls
    \/ CategorySubmit
    \/ \E url \in DOMAIN workers : ProcessFetch(url)
    \/ \E url \in DOMAIN workers : ProcessExists(url)
    \/ \E url \in DOMAIN workers : ProcessWrite(url)
    \/ \E url \in DOMAIN workers : CategoryCount(url)
    \/ CategoryComplete

\* The processing phase of the category crawler, its threads interleaved.
SpecCategory == InitCategory /\ [][NextCategory]_vars

\* ------------------------------------------------------------ claims

\* main() went past line 148 without returning early.
Accounted == pc \in {"assign", "write"} \/ (pc = "done" /\ written)

\* main() went past line 151 without returning early.
Assembled == pc = "write" \/ (pc = "done" /\ written)

\* C1: once the indices are assigned, the timeline_index values of the
\* placed events are exactly 0..placed_count-1, no two placed events share
\* one, and each placed event's index is its position in the timeline and
\* in the dumped array.
C1_IndexContiguity ==
    Assembled =>
        /\ \A i \in 1..Len(full_timeline) :
               main_events[full_timeline[i]].timeline_index = i - 1
        /\ {main_events[e].timeline_index : e \in Range(full_timeline)}
               = 0..(placed_count - 1)
        /\ Cardinality(Range(full_timeline)) = placed_count
        /\ written =>
               /\ Len(output_data) = placed_count
               /\ \A i \in 1..Len(output_data) :
                      output_data[i].timeline_index = i - 1

\* A finished run that placed three events.
C1_Witness == pc = "done" /\ written /\ placed_count = 3

\* C2: at the accounting step, placed_count plus the number of reported
\* missed events equals the number of loaded events.
C2_Accounting ==
    Accounted => placed_count + Cardinality(missed_events) = total_count

\* What the walk of one event may resolve a normalized next title to
\* (lines 125-134): the dict entry, else the entry of a best match above
\* the threshold, else nothing.
ResolveSet(nt) ==
    IF nt = <<>> THEN {}
    ELSE IF nt \in DOMAIN events_by_title THEN {events_by_title[nt]}
    ELSE IF BestScore(nt, all_main_event_titles) > 90
         THEN {events_by_title[t] : t \in BestChoices(nt, all_main_event_titles)}
         ELSE {}

\* The events appended so far, chain by chain, the walk in progress last.
Walked ==
    IF pc \in {"walk", "extend"} THEN Append(chains, current_chain) ELSE chains

\* The number of events appended so far.
Appended ==
    Len(full_timeline) + (IF pc \in {"walk", "extend"} THEN Len(current_chain) ELSE 0)

\* The start events the for loop has still to take, the current one included.
StartsLeft ==
    IF pc \in {"for_start", "walk", "extend"}
    THEN Len(starting_events) - start_pos + 1
    ELSE 0

\* A bound on the steps main() has still to take.
Rank ==
    LET n == Len(main_events)
        u == n - Cardinality(processed_titles)
    IN  CASE pc = "loaded"      -> 6 * n + 6
          [] pc = "find_starts" -> 6 * n + 5
          [] pc = "for_start"   -> 4 + 4 * StartsLeft + 2 * u
          [] pc = "walk"        -> 4 + 4 * (StartsLeft - 1) + 2 * u
                                     + (IF current_event # 0 THEN 3 ELSE 2)
          [] pc = "extend"      -> 4 + 4 * (StartsLeft - 1) + 2 * u + 1
          [] pc = "account"     -> 3
          [] pc = "assign"      -> 2
          [] pc = "write"       -> 1
          [] OTHER              -> 0

\* C3: the chain builder terminates on every corpus, cycles included: a
\* bound on the remaining steps falls at every step and never goes below
\* zero, no more events are appended than were loaded, and every chain
\* begins at a start event and goes on only to an event the preceding
\* one's next title resolves to, so that a cycle no start event reaches is
\* in no chain.
C3_Terminates ==
    /\ [][Rank' < Rank]_vars
    /\ [](Rank >= 0)
    /\ [](Appended <= Len(main_events))
    /\ [](\A k \in 1..Len(Walked) : \A i \in 1..Len(Walked[k]) :
             IF i = 1
             THEN Walked[k][i] \in Range(starting_events)
             ELSE Walked[k][i] \in
                      ResolveSet(NextTitle(main_events[Walked[k][i - 1]])))

\* A finished run whose first chain walked a cycle of three events, the
\* last link of it found by fuzzy matching.
C3_Witness ==
    /\ pc = "done"
    /\ Len(chains) >= 1
    /\ Len(chains[1]) = 3
    /\ ends[1] = "cycle"
    /\ \E i \in 1..3 : Title(chains[1][i]) = <<SP, "c">>

\* C4: a second run of the script on the same directory writes what the
\* first run wrote.
C4_SameOutput ==
    (pc = "done" /\ run = 2) =>
        /\ written = first_output.written
        /\ output_data = first_output.data

\* C5: an event is a start event exactly when its previous title, resolved
\* as next titles are (normalized, looked up, fuzzy-matched above the
\* threshold), is not found.
C5_StartIffUnresolved ==
    pc \in {"for_start", "walk", "extend", "account", "assign", "write"} =>
        \A i \in 1..Len(main_events) :
            i \in Range(starting_events)
                <=> ResolveSet(normalize_title(Previous(main_events[i]))) = {}

C7_ExactOnNormalized ==
    (/\ resolved.how \in {"exact", "fuzzy", "notfound"}
     /\ \E i \in 1..Len(main_events) :
            normalize_title(Title(i)) = resolved.target)
        => /\ resolved.how = "exact"
           /\ normalize_title(Title(resolved.event)) = resolved.target

\* The position in Walked of the chain that holds event e, 0 when none does.
ChainOf(e) ==
    IF \E k \in 1..Len(Walked) : e \in Range(Walked[k])
    THEN CHOOSE k \in 1..Len(Walked) : e \in Range(Walked[k])
    ELSE 0

\* C8: when the exact lookup of a non-empty next title fails, the best
\* fuzzy match is taken exactly when its score is above 90; otherwise
\* nothing is resolved and the walk ends broken at the current event.
C8_Threshold ==
    /\ resolved.how \in {"fuzzy", "notfound"} =>
           /\ resolved.target # <<>>
           /\ resolved.target \notin DOMAIN events_by_title
           /\ \A t \in all_main_event_titles :
                  Score(resolved.target, t) <= resolved.score
    /\ resolved.how = "fuzzy" =>
           /\ resolved.score > 90
           /\ resolved.event # 0
           /\ Score(resolved.target, Title(resolved.event)) = resolved.score
    /\ resolved.how = "notfound" =>
           /\ resolved.score <= 90
           /\ resolved.event = 0
           /\ LET k == ChainOf(resolved.from)
              IN  /\ k # 0
                  /\ Walked[k][Len(Walked[k])] = resolved.from
                  /\ ends[k] = "broken"
                  /\ (pc = "walk" /\ k = Len(Walked)) => current_event = 0

\* A best match of exactly 90 was turned down.
C8_Witness == resolved.how = "notfound" /\ resolved.score = 90

\* No event is appended twice, in one chain or in two.
NoEventTwice ==
    \A k, l \in 1..Len(Walked) :
        \A i \in 1..Len(Walked[k]) : \A j \in 1..Len(Walked[l]) :
            Walked[k][i] = Walked[l][j] => (k = l /\ i = j)

\* C9: a walk step on an event not yet visited appends it and marks its
\* normalized title, and goes on with the event its next title resolves
\* to; a walk ends with a non-empty chain in exactly one way: clean when
\* the last event's next title is empty, broken when it is not empty and
\* resolves to nothing, by a cycle when it resolves to an event whose
\* normalized title is visited, and that event is not appended again.
C9_WalkEnds ==
    /\ [][(/\ pc = "walk"
           /\ current_event # 0
           /\ normalize_title(Title(current_event)) \notin processed_titles)
          => LET rs == ResolveSet(NextTitle(main_events[current_event]))
             IN  /\ current_chain' = Append(current_chain, current_event)
                 /\ processed_titles' = processed_titles
                        \cup {normalize_title(Title(current_event))}
                 /\ rs # {} => (pc' = "walk" /\ current_event' \in rs)
                 /\ rs = {} => (pc' = "extend" \/ current_event' = 0)]_vars
    /\ [](pc = "extend" =>
            LET last == current_chain[Len(current_chain)]
                nt   == NextTitle(main_events[last])
                kind == ends[Len(ends)]
            IN  /\ Len(current_chain) >= 1
                /\ Len(ends) = Len(chains) + 1
                /\ kind = "clean" <=> nt = <<>>
                /\ kind = "broken" <=> (nt # <<>> /\ ResolveSet(nt) = {})
                /\ kind = "cycle" <=>
                       /\ current_event \in ResolveSet(nt)
                       /\ normalize_title(Title(current_event))
                              \in processed_titles)
    /\ []NoEventTwice

\* A walk of two events or more that ended by a cycle.
C9_Witness ==
    /\ pc = "extend"
    /\ ends[Len(ends)] = "cycle"
    /\ Len(current_chain) >= 2

\* C10: the start events are in load order and the chains begin at start
\* events in that order; a start event whose normalized title an earlier
\* chain visited begins no chain; no event is in two chains or twice in
\* the timeline.
C10_StartsInOrder ==
    /\ \A i, j \in 1..Len(starting_events) :
           i < j => starting_events[i] < starting_events[j]
    /\ Len(Walked) = chain_count
    /\ \A k \in 1..Len(chains) :
           /\ chains[k] # <<>>
           /\ chains[k][1] \in Range(starting_events)
           /\ \A l \in 1..(k - 1) :
                  /\ chains[l][1] < chains[k][1]
                  /\ \A i \in 1..Len(chains[l]) :
                         normalize_title(Title(chains[l][i]))
                             # normalize_title(Title(chains[k][1]))
    /\ \A p \in 1..Len(starting_events) :
           (pc \in {"for_start", "walk", "extend"} /\ p < start_pos) =>
               normalize_title(Title(starting_events[p])) \in processed_titles
    /\ NoEventTwice
    /\ \A i, j \in 1..Len(full_timeline) :
           full_timeline[i] = full_timeline[j] => i = j

\* A finished run in which one of three start events began no chain.
C10_Witness ==
    /\ pc = "done"
    /\ written
    /\ Len(starting_events) = 3
    /\ Len(chains) = 2

\* The concatenation of a list of lists.
RECURSIVE Flatten(_)
Flatten(lists) ==
    IF lists = <<>> THEN <<>> ELSE Head(lists) \o Flatten(Tail(lists))

\* The position of event e in the timeline, 0 when it is not in it.
PositionOf(e) ==
    IF e \in Range(full_timeline)
    THEN CHOOSE i \in 1..Len(full_timeline) : full_timeline[i] = e
    ELSE 0

\* C11: the timeline is the concatenation of the chains in the order they
\* were begun: the events of a chain are next to each other in walk order,
\* every event of an earlier chain comes before every event of a later
\* one, and the dumped array lists the events in that order.
C11_ConcatenationOrder ==
    /\ full_timeline = Flatten(chains)
    /\ \A k \in 1..Len(chains) : \A i \in 1..Len(chains[k]) :
           /\ PositionOf(chains[k][i]) # 0
           /\ i > 1 => PositionOf(chains[k][i]) = PositionOf(chains[k][i - 1]) + 1
           /\ \A l \in (k + 1)..Len(chains) : \A j \in 1..Len(chains[l]) :
                  PositionOf(chains[k][i]) < PositionOf(chains[l][j])
    /\ written =>
           /\ Len(output_data) = Len(full_timeline)
           /\ \A i \in 1..Len(output_data) :
                  output_data[i] = main_events[full_timeline[i]]

\* A written timeline of two chains, the first of two events.
C11_Witness ==
    /\ pc = "done"
    /\ written
    /\ Len(chains) = 2
    /\ Len(chains[1]) = 2

\* C12: a run that loaded nothing, or found no start event, ends without
\* walking a chain, without writing OUTPUT_FILE and with every
\* timeline_index as it was loaded.
C12_EarlyReturn ==
    (pc = "done" /\ (main_events = <<>> \/ starting_events = <<>>)) =>
        /\ ~written
        /\ output_data = <<>>
        /\ chains = <<>>
        /\ full_timeline = <<>>
        /\ \A i \in 1..Len(main_events) : main_events[i].timeline_index = NoIndex

\* A finished run over two events that form a ring: none is a start event.
C12_Witness ==
    /\ pc = "done"
    /\ Len(main_events) = 2
    /\ all_main_event_titles # {}
    /\ starting_events = <<>>
    /\ NextTitle(main_events[1]) = normalize_title(Title(2))
    /\ NextTitle(main_events[2]) = normalize_title(Title(1))

\* The loaded events as they were before any index was assigned.
AsLoaded ==
    [i \in 1..Len(main_events) |->
        [main_events[i] EXCEPT !.timeline_index = NoIndex]]

\* C13: however the walks end, a run that found a start event writes its
\* output, and every start event either begins a chain or has its
\* normalized title visited by a chain begun at an earlier start event;
\* the events X (next title names no event) and Z (no next title) give
\* the chains [X] and [Z], the indices 0 and 1 and no missed event.
C13_BrokenEndsOneChain ==
    /\ (pc = "done" /\ starting_events # <<>>) => written
    /\ Accounted =>
           \A p \in 1..Len(starting_events) :
               \/ \E k \in 1..Len(chains) : chains[k][1] = starting_events[p]
               \/ \E k \in 1..Len(chains) :
                      /\ chains[k][1] < starting_events[p]
                      /\ \E i \in 1..Len(chains[k]) :
                             normalize_title(Title(chains[k][i]))
                                 = normalize_title(Title(starting_events[p]))
    /\ (/\ pc = "done"
        /\ AsLoaded = <<Event(<<"a">>, None, <<"c">>), Event(<<"b">>, None, None)>>)
           => /\ chains = <<(<<1>>), (<<2>>)>>
              /\ ends = <<"broken", "clean">>
              /\ written
              /\ output_data[1].timeline_index = 0
              /\ output_data[2].timeline_index = 1
              /\ missed_events = {}

\* The finished run over X, whose next title names no event, and Z.
C13_Witness ==
    /\ pc = "done"
    /\ AsLoaded = <<Event(<<"a">>, None, <<"c">>), Event(<<"b">>, None, None)>>
    /\ ends = <<"broken", "clean">>

\* C17: no step of main() changes anything of an event but its
\* timeline_index; the events change in the assembly step only, where
\* every placed event, once in the timeline, goes from no index to its
\* index and every other event stays as it was.
C17_OnlyIndexWritten ==
    [][/\ AsLoaded' = AsLoaded
       /\ main_events' # main_events =>
              /\ pc = "assign"
              /\ \A e \in 1..Len(main_events) :
                     IF e \in Range(full_timeline)
                     THEN /\ main_events[e].timeline_index = NoIndex
                          /\ main_events'[e].timeline_index # NoIndex
                          /\ Cardinality({i \in 1..Len(full_timeline) :
                                             full_timeline[i] = e}) = 1
                     ELSE main_events'[e] = main_events[e]]_vars

\* The indices are assigned while one of the loaded events is in no chain.
C17_Witness ==
    /\ pc = "write"
    /\ full_timeline # <<>>
    /\ \E e \in 1..Len(main_events) :
           /\ e \notin Range(full_timeline)
           /\ main_events[e].timeline_index = NoIndex

\* The file's name ends with .json and its text is a JSON object.
Parses(file) == file.json_suffix /\ file.data # Invalid

\* C14: a document that parses and lacks optional keys only is loaded, so
\* that once the listing is through there are as many events as documents
\* that parse (every document of the files has a title and a navigation).
C14_OptionalKeysDefault ==
    pc # "listing" =>
        Len(event_objects)
            = Cardinality({i \in 1..Len(directory) : Parses(directory[i])})

\* The files load_main_events has been through.
FilesSeen == IF pc = "listing" THEN file_pos - 1 ELSE Len(directory)

\* The files among the first n that parse, in listing order.
ParsedUpTo(n) ==
    SelectSeq([i \in 1..n |-> i], LAMBDA i : Parses(directory[i]))

\* C15: whatever files come before or after it, a file that does not
\* parse is skipped and every other document is loaded: the events loaded
\* so far are those of the documents seen so far that parse, one for one
\* and in listing order, and all of them reach main().
C15_MalformedSkipped ==
    LET src == ParsedUpTo(FilesSeen)
    IN  /\ Len(event_objects) = Len(src)
        /\ \A j \in 1..Len(src) :
               event_objects[j].event_title = directory[src[j]].data.event_title
        /\ pc \notin {"listing", "raised"} =>
               /\ Len(main_events) = Len(event_objects)
               /\ \A j \in 1..Len(src) :
                      main_events[j].event_title = event_objects[j].event_title

\* The document the event at position e of main_events was built from.
SourceOf(e) ==
    LET src == SelectSeq([i \in 1..Len(directory) |-> i],
                         LAMBDA i : Loads(directory[i]))
    IN  directory[src[e]].data

C18_NoUncaughtException == pc # "raised"

\* C19: normalize_title of None and of the empty string is the empty
\* string, and normalize_title of a result of normalize_title is that
\* result.
C19_Idempotent ==
    /\ (pc = "returned" /\ title_in \in {None, <<>>}) => title_out = <<>>
    /\ pc = "returned_again" => title_out = title_in

\* C20: at the accounting step the reported missed titles are the titles
\* of the loaded events that are in no chain: the title of a placed event
\* is not reported and the title of an event that is not placed is.
C20_OrphansExact ==
    Accounted =>
        \A e \in 1..Len(main_events) :
            Title(e) \in missed_events <=> e \notin Range(full_timeline)

\* The event the next title of event i names exactly, 0 when it has no
\* next title or no event has that title.
Succ(i) ==
    IF \E j \in 1..Len(main_events) : Title(j) = NextRaw(main_events[i])
    THEN CHOOSE j \in 1..Len(main_events) : Title(j) = NextRaw(main_events[i])
    ELSE 0

\* The event reached from event i by following k next titles, 0 when the
\* thread ends before.
RECURSIVE Follow(_, _)
Follow(i, k) ==
    IF i = 0 \/ k = 0 THEN i ELSE Follow(Succ(i), k - 1)

\* The corpus is made of disjoint threads: the titles are normalized and
\* no two events share one, every next title is the title of an event
\* whose previous title names the event back, every previous title is the
\* title of an event whose next title names the event, and no thread
\* comes back to an event of it.
IsThreads ==
    LET n == Len(main_events)
    IN  /\ \A i \in 1..n :
               /\ Title(i) # <<>>
               /\ normalize_title(Title(i)) = Title(i)
               /\ \A j \in 1..n : Title(i) = Title(j) => i = j
               /\ NextRaw(main_events[i]) # None =>
                      /\ Succ(i) # 0
                      /\ Previous(main_events[Succ(i)]) = Title(i)
               /\ Previous(main_events[i]) # None =>
                      \E j \in 1..n : Succ(j) = i /\ Title(j) = Previous(main_events[i])
               /\ Follow(i, n) = 0

\* The events without a previous title.
Heads == {i \in 1..Len(main_events) : Previous(main_events[i]) = None}

\* C21: on a corpus of disjoint threads, in whatever order it is loaded,
\* a finished run has one chain for each thread, every chain goes from
\* the event without previous title along the next titles to the event
\* without next title, every event is placed and no title is missed.
C21_OneChainPerThread ==
    (Accounted /\ IsThreads) =>
        /\ Len(chains) = Cardinality(Heads)
        /\ \A k \in 1..Len(chains) :
               /\ chains[k][1] \in Heads
               /\ \A i \in 1..(Len(chains[k]) - 1) :
                      chains[k][i + 1] = Succ(chains[k][i])
               /\ NextRaw(main_events[chains[k][Len(chains[k])]]) = None
        /\ Range(full_timeline) = 1..Len(main_events)
        /\ placed_count = total_count
        /\ missed_events = {}

\* A finished run over two threads, one of two events loaded last first.
C21_Witness ==
    /\ pc = "done"
    /\ written
    /\ IsThreads
    /\ Len(main_events) = 3
    /\ Len(chains) = 2
    /\ \E k \in 1..2 : Len(chains[k]) = 2 /\ chains[k][1] > chains[k][2]

\* C22: a chain begun at an event whose next title resolves to that event
\* alone holds that one event and is ended by the cycle test when the
\* walk comes to the event again; a chain begun at an event without next
\* title holds that one event and ends cleanly.
C22_SelfLoop ==
    \A k \in 1..Len(Walked) :
        Walked[k] # <<>> =>
            LET s  == Walked[k][1]
                nt == NextTitle(main_events[s])
            IN  /\ ResolveSet(nt) = {s} =>
                       /\ Walked[k] = <<s>>
                       /\ k <= Len(chains) => ends[k] = "cycle"
                       /\ (k > Len(chains) /\ pc = "walk") => current_event = s
                /\ nt = <<>> =>
                       /\ Walked[k] = <<s>>
                       /\ k <= Len(ends) => ends[k] = "clean"

\* A finished chain of one event whose next title a fuzzy match resolves
\* to the event itself.
C22_Witness ==
    \E k \in 1..Len(chains) :
        /\ chains[k] = <<chains[k][1]>>
        /\ ends[k] = "cycle"
        /\ NextTitle(main_events[chains[k][1]]) # Title(chains[k][1])
        /\ ResolveSet(NextTitle(main_events[chains[k][1]])) = {chains[k][1]}

\* The strings r and t are one character apart: one character replaced,
\* or one character more or less.
OneEdit(r, t) ==
    \/ /\ Len(r) = Len(t)
       /\ Cardinality({i \in 1..Len(t) : r[i] # t[i]}) = 1
    \/ \E i \in 1..Len(t) : r = Deleted(t, i)
    \/ \E i \in 1..Len(r) : t = Deleted(r, i)

\* C23: a next title that is no title of the corpus and is one character
\* away from a title of at least 15 characters is resolved by a fuzzy
\* match above 90 to the event of that title; a next title that no title
\* of the corpus matches above 90 is not found.
C23_OneEditResolves ==
    resolved.how \in {"fuzzy", "notfound"} =>
        /\ \A t \in all_main_event_titles :
               (Len(t) >= 15 /\ OneEdit(resolved.target, t)) =>
                   /\ resolved.how = "fuzzy"
                   /\ resolved.score > 90
                   /\ Title(resolved.event) = t
        /\ (\A t \in all_main_event_titles : Score(resolved.target, t) <= 90)
               => resolved.how = "notfound"

\* C24: every walk that has ended printed a message about its end: the
\* k-th message is about the k-th end, an end by a cycle like the others.
C24_CycleDiagnosed ==
    \A k \in 1..Len(ends) :
        /\ k <= Len(diagnostics)
        /\ diagnostics[k].kind = ends[k]

\* The events appended so far, in the finished chains and the current one.
AppendedEvents == UNION {Range(Walked[k]) : k \in 1..Len(Walked)}

\* C25: at every point of a run the processed titles are the normalized
\* titles of the events appended so far, as many as those events, and no
\* step takes a title out of the set.
C25_VisitedSet ==
    /\ [](processed_titles
             = {normalize_title(Title(e)) : e \in AppendedEvents})
    /\ [](Cardinality(processed_titles) = Appended)
    /\ [](Cardinality(AppendedEvents) = Appended)
    /\ [][processed_titles \subseteq processed_titles']_vars

\* A walk in progress that has appended three events, one of them with a
\* title that differs from its normalized form.
C25_Witness ==
    /\ pc = "walk"
    /\ Len(current_chain) = 3
    /\ Cardinality(processed_titles) = 3
    /\ \E e \in Range(current_chain) : normalize_title(Title(e)) # Title(e)

\* The chains whose walk has ended, the one about to be stored included.
Finished ==
    IF pc = "extend" THEN Append(chains, current_chain) ELSE chains

\* The normalized titles of the events of the first k finished chains.
VisitedThrough(k) ==
    {normalize_title(Title(e)) : e \in UNION {Range(Finished[j]) : j \in 1..k}}

\* C26: every finished chain has an event; each event of a chain after the
\* first is one its predecessor's next title resolves to; and the next
\* title of the last event is empty, resolves to nothing, or resolves to an
\* event whose normalized title was visited by the time the walk got there.
C26_ChainsMaximal ==
    \A k \in 1..Len(Finished) :
        LET chain == Finished[k]
            last  == chain[Len(chain)]
            rs    == ResolveSet(NextTitle(main_events[last]))
        IN  /\ Len(chain) >= 1
            /\ \A i \in 1..(Len(chain) - 1) :
                   chain[i + 1] \in ResolveSet(NextTitle(main_events[chain[i]]))
            /\ \/ rs = {}
               \/ \E f \in rs : normalize_title(Title(f)) \in VisitedThrough(k)

\* A finished run with a chain of two events or more, one of its links
\* found by fuzzy matching, whose last event points back at a visited one.
C26_Witness ==
    /\ pc = "done"
    /\ \E k \in 1..Len(chains) :
           /\ Len(chains[k]) >= 2
           /\ ends[k] = "cycle"
           /\ \E i \in 1..(Len(chains[k]) - 1) :
                  NextTitle(main_events[chains[k][i]]) \notin DOMAIN events_by_title
           /\ ResolveSet(NextTitle(main_events[chains[k][Len(chains[k])]])) # {}

\* No element of the sequence occurs twice.
NoDuplicates(seq) == \A i, j \in 1..Len(seq) : seq[i] = seq[j] => i = j

\* C27: the to_visit queue never holds a title twice and never holds a
\* visited title, and no title is submitted to process_and_discover twice.
C27_QueueDistinct ==
    /\ NoDuplicates(to_visit)
    /\ Range(to_visit) \cap visited_titles = {}
    /\ NoDuplicates(submitted)
    /\ Range(submitted) = visited_titles

\* Two titles were submitted, a result named a title that was visited
\* already, and another title is waiting in the queue.
C27_Witness ==
    /\ Len(submitted) >= 2
    /\ discovered \cap visited_titles # {}
    /\ to_visit # <<>>

\* Every title a result can name.
Discoverable ==
    {d \in UNION {{process_and_discover(r, NoneTitle).prev_event,
                   process_and_discover(r, NoneTitle).next_event} :
                      r \in Responses} : Truthy(d)}

\* C28: a title named by the previous or next link of a successful result
\* is submitted in the end, and the traversal loop ends with an empty queue.
C28_DiscoveredSubmitted ==
    /\ \A t \in Discoverable :
           (t \in discovered) ~> (t \in Range(submitted))
    /\ <>(hpc = "complete" /\ to_visit = <<>> /\ futures = {})

\* A complete crawl whose last submission was a title a result had named,
\* not one of the event pages seeded.
C28_Witness ==
    /\ hpc = "complete"
    /\ Len(submitted) >= 2
    /\ submitted[Len(submitted)] \in discovered \ EventPages

\* C29: no output path is opened for writing more than once in a run, and
\* a path that existed before the run has the content it had.
C29_NoOverwrite ==
    /\ \A p \in DOMAIN writes : writes[p] <= 1
    /\ \A p \in before : p \in DOMAIN files /\ files[p] = "old"

\* The urls whose outcome went to the counter.
CountedAs(counter) ==
    {u \in DOMAIN workers :
        workers[u].at = "yielded" /\ Classify(workers[u].result) = counter}

\* C30: one call of process_url is made for every discovered URL; no
\* outcome is counted twice; each counter is the number of yielded outcomes
\* of its kind; and at completion every URL, whatever became of the
\* others, has returned and been counted once, the three counters adding
\* up to total_urls.
C30_EveryUrlCounted ==
    /\ cpc \in {"as_completed", "complete"} =>
           /\ DOMAIN workers = DOMAIN final_url_map
           /\ total_urls = Cardinality(DOMAIN final_url_map)
           /\ \A u \in DOMAIN workers :
                  counted[u] = (IF workers[u].at = "yielded" THEN 1 ELSE 0)
           /\ success_count = Cardinality(CountedAs("success_count"))
           /\ skip_count = Cardinality(CountedAs("skip_count"))
           /\ error_count = Cardinality(CountedAs("error_count"))
    /\ cpc = "complete" =>
           /\ \A u \in DOMAIN workers :
                  /\ counted[u] = 1
                  /\ workers[u].result \in {"[SUCCESS]", "[SKIP]", "[WARNING]", "[ERROR]"}
           /\ success_count + skip_count + error_count = total_urls

\* A complete run in which one URL failed and another was saved.
C30_Witness ==
    /\ cpc = "complete"
    /\ \E u, v \in DOMAIN workers :
           /\ workers[u].result \in {"[ERROR]", "[WARNING]"}
           /\ workers[v].result = "[SUCCESS]"
    /\ error_count >= 1
    /\ success_count >= 1

=============================================================================
